---------------------------- MODULE Spec2Model ----------------------------
(***************************************************************************)
(* The drawing engine of the whiteboard front end.                         *)
(*                                                                         *)
(*   Whiteboard        src/unnamed/part_004: the standalone whiteboard     *)
(*                     (reducer, pointer / keyboard / text handlers).      *)
(*   WhiteboardCanvas  src/src/components/WhiteboardCanvas.tsx: the        *)
(*                     room-integrated canvas (whiteboardReducer, mouse    *)
(*                     handlers, socket listener and emitter).             *)
(*                                                                         *)
(* Shapes of the standalone whiteboard are JavaScript objects that the     *)
(* handlers mutate in place while arrays of them are shared between the    *)
(* displayed scene and the history snapshots.  The model keeps them in a   *)
(* heap: `heap` maps an object reference to the object's fields, the scene *)
(* and the snapshots are sequences of references.  Elements of the room    *)
(* canvas are never mutated in place and are modelled as values.           *)
(***************************************************************************)
EXTENDS Integers, Sequences, FiniteSets, TLC

VARIABLES
    mounted,            \* which of the two components the page has mounted
    now,                \* last value read from Date.now()
    \* ---- Whiteboard (part_004) ----
    heap,               \* shape objects by reference
    state,              \* useReducer state: shapes, history, historyIndex
    tool,               \* useState: active tool
    isDrawing,          \* useState
    startPoint,         \* useState: <<>> (null) or <<point>>
    selectedIndices,    \* useState: sequence of 0-based indices
    action,             \* useState: "none" | "drawing" | "panning" | "dragging"
    editingShapeIndex,  \* useState: NullIndex (null) or a 0-based index
    view,               \* useState: x, y, zoom
    \* ---- WhiteboardCanvas (WhiteboardCanvas.tsx) ----
    socket,             \* prop: TRUE when a socket is supplied
    roomState,          \* useReducer state: elements, selectedElementIds,
                        \*   history, historyIndex, zoom, pan
    currentTool,        \* useState
    isDrawingC,         \* useState isDrawing of the canvas
    currentElement,     \* useState: <<>> (null) or <<element>>
    textInput,          \* useState: <<>> (null) or <<[x, y, value]>>
    timers,             \* pending setTimeout(() => emitWhiteboardUpdate(), 0)
                        \*   callbacks, each with the elements its closure holds
    emitted             \* messages the last handler run gave to socket.emit

boardVars == <<heap, state, tool, isDrawing, startPoint, selectedIndices,
               action, editingShapeIndex, view>>
roomVars == <<socket, roomState, currentTool, isDrawingC, currentElement,
              textInput, timers, emitted>>
vars == <<mounted, now, boardVars, roomVars>>

-----------------------------------------------------------------------------
(* Bounds of the model. *)
MaxShapes  == 2      \* live shape objects (standalone) / elements (room)
MaxHistory == 5      \* snapshots kept in a history
MaxPoints  == 2      \* points of one freehand or eraser stroke
MaxClock   == 2      \* largest Date.now() reading
MaxCoord   == 40     \* |coordinate| of any dragged shape
MaxRoomHistory == 4   \* snapshots in the room canvas' history
MaxQueue   == 1      \* pending setTimeout callbacks
MaxView    == 20     \* |view offset| in pixels

(* Program constants. *)
stroke       == 4    \* STROKES[1]
eraserStroke == 12   \* ERASER_STROKES[1]
fontSize     == 24   \* FONT_SIZES[1]
NullIndex    == -1   \* editingShapeIndex === null

Pt(px, py) == [x |-> px, y |-> py]

(* World positions the pointer events arrive at. *)
Positions == {Pt(10, 10), Pt(40, 40)}

(* Values the text editor can hold: empty, blank, one letter. *)
TextValues == {<<>>, <<" ">>, <<"a">>}

Refs == 1..MaxShapes

Min2(a, b) == IF a <= b THEN a ELSE b
Max2(a, b) == IF a >= b THEN a ELSE b
Abs(a) == IF a < 0 THEN -a ELSE a

SeqMin(s) == CHOOSE m \in {s[i] : i \in 1..Len(s)} :
                 \A i \in 1..Len(s) : m <= s[i]
SeqMax(s) == CHOOSE m \in {s[i] : i \in 1..Len(s)} :
                 \A i \in 1..Len(s) : m >= s[i]

Last(s) == s[Len(s)]

RECURSIVE FilterSeq(_, _, _)
(* Array.prototype.filter with the 0-based index: keep s[i] when          *)
(* Keep[i] holds, in order.                                                *)
FilterSeq(s, Keep, i) ==
    IF i > Len(s) THEN <<>>
    ELSE IF Keep[i] THEN <<s[i]>> \o FilterSeq(s, Keep, i + 1)
         ELSE FilterSeq(s, Keep, i + 1)

-----------------------------------------------------------------------------
(* Shapes. *)

BBox(bx, by, bw, bh) == [x |-> bx, y |-> by, width |-> bw, height |-> bh]

(* A slot of the heap that holds no object. *)
NoShape ==
    [id |-> 0, type |-> "none", stroke |-> 0, points |-> <<>>,
     x |-> 0, y |-> 0, width |-> 0, height |-> 0,
     x1 |-> 0, y1 |-> 0, x2 |-> 0, y2 |-> 0,
     text |-> <<>>, bbox |-> BBox(0, 0, 0, 0)]

(* String.prototype.trim() === '' on a text of spaces and letters. *)
TrimIsEmpty(text) == \A i \in 1..Len(text) : text[i] = " "

(* ctx.measureText: advance width and ink extents of a text in the font.  *)
CharWidth == 12
Ascent    == 17
Descent   == 5
measureText(text) ==
    [width |-> CharWidth * Len(text),
     actualBoundingBoxAscent  |-> IF TrimIsEmpty(text) THEN 0 ELSE Ascent,
     actualBoundingBoxDescent |-> IF TrimIsEmpty(text) THEN 0 ELSE Descent]

updateBoundingBox(shape) ==
    CASE shape.type \in {"freehand", "eraser"} ->
           IF Len(shape.points) = 0
           THEN [shape EXCEPT !.bbox = BBox(0, 0, 0, 0)]
           ELSE LET xs == [i \in 1..Len(shape.points) |-> shape.points[i].x]
                    ys == [i \in 1..Len(shape.points) |-> shape.points[i].y]
                    minX == SeqMin(xs)
                    minY == SeqMin(ys)
                    maxX == SeqMax(xs)
                    maxY == SeqMax(ys)
                IN [shape EXCEPT !.bbox =
                       BBox(minX - shape.stroke \div 2, minY - shape.stroke \div 2,
                            (maxX - minX) + shape.stroke,
                            (maxY - minY) + shape.stroke)]
      [] shape.type \in {"rect", "circle"} ->
           [shape EXCEPT !.bbox = BBox(shape.x, shape.y, shape.width, shape.height)]
      [] shape.type = "arrow" ->
           [shape EXCEPT !.bbox =
               BBox(Min2(shape.x1, shape.x2), Min2(shape.y1, shape.y2),
                    Abs(shape.x1 - shape.x2), Abs(shape.y1 - shape.y2))]
      [] shape.type = "text" ->
           LET metrics == measureText(shape.text)
           IN [shape EXCEPT !.bbox =
                  BBox(shape.x, shape.y - metrics.actualBoundingBoxAscent,
                       metrics.width,
                       metrics.actualBoundingBoxAscent
                         + metrics.actualBoundingBoxDescent)]
      [] OTHER -> shape

isPointInShape(px, py, shape) ==
    /\ px >= shape.bbox.x
    /\ px <= shape.bbox.x + shape.bbox.width
    /\ py >= shape.bbox.y
    /\ py <= shape.bbox.y + shape.bbox.height

(* The AABB test inlined in the eraser branch of handlePointerMove. *)
boxesIntersect(a, b) ==
    /\ a.x < b.x + b.width
    /\ a.x + a.width > b.x
    /\ a.y < b.y + b.height
    /\ a.y + a.height > b.y

-----------------------------------------------------------------------------
(* The reducer of the standalone whiteboard (part_004, reducer).           *)
(* historyIndex is 0-based as in the source: snapshot i is history[i + 1]. *)

initialState == [shapes |-> <<>>, history |-> << <<>> >>, historyIndex |-> 0]

(* Variants of the reducer's cases, used to see that the properties      *)
(* below depend on what the cases compute.                                 *)
reducer_ADD_SHAPE_appendOnly(st, payload) ==
    LET newShapes  == Append(st.shapes, payload)
        newHistory == Append(st.history, newShapes)
    IN [shapes |-> newShapes, history |-> newHistory,
        historyIndex |-> Len(newHistory) - 1]

reducer_UNDO_unguarded(st) ==
    [st EXCEPT !.historyIndex = st.historyIndex - 1]

reducer_UNDO_stopsAtOne(st) ==
    IF st.historyIndex > 1
    THEN [st EXCEPT !.shapes = st.history[st.historyIndex],
                    !.historyIndex = st.historyIndex - 1]
    ELSE st

reducer_ADD_SHAPE(st, payload) ==
    LET newShapes  == Append(st.shapes, payload)
        newHistory == Append(SubSeq(st.history, 1, st.historyIndex + 1), newShapes)
    IN [shapes |-> newShapes, history |-> newHistory,
        historyIndex |-> Len(newHistory) - 1]

reducer_UPDATE_SHAPES(st, payload) ==
    LET newShapes  == payload
        newHistory == Append(SubSeq(st.history, 1, st.historyIndex + 1), newShapes)
    IN [shapes |-> newShapes, history |-> newHistory,
        historyIndex |-> Len(newHistory) - 1]

reducer_SET_SHAPES_NO_HISTORY(st, payload) ==
    [st EXCEPT !.shapes = payload]

reducer_UNDO(st) ==
    IF st.historyIndex > 0
    THEN LET newIndex == st.historyIndex - 1
         IN [st EXCEPT !.shapes = st.history[newIndex + 1],
                       !.historyIndex = newIndex]
    ELSE st

reducer_REDO(st) ==
    IF st.historyIndex < Len(st.history) - 1
    THEN LET newIndex == st.historyIndex + 1
         IN [st EXCEPT !.shapes = st.history[newIndex + 1],
                       !.historyIndex = newIndex]
    ELSE st

(* A variant of CLEAR that commits an empty scene instead of resetting. *)
reducer_CLEAR_committing(st) ==
    LET newHistory == Append(SubSeq(st.history, 1, st.historyIndex + 1), <<>>)
    IN [shapes |-> <<>>, history |-> newHistory,
        historyIndex |-> Len(newHistory) - 1]

reducer_CLEAR(st) ==
    [st EXCEPT !.shapes = <<>>, !.history = << <<>> >>, !.historyIndex = 0]

reducer(st, a) ==
    CASE a.type = "ADD_SHAPE"             -> reducer_ADD_SHAPE(st, a.payload)
      [] a.type = "UPDATE_SHAPES"         -> reducer_UPDATE_SHAPES(st, a.payload)
      [] a.type = "SET_SHAPES_NO_HISTORY" -> reducer_SET_SHAPES_NO_HISTORY(st, a.payload)
      [] a.type = "UNDO"                  -> reducer_UNDO(st)
      [] a.type = "REDO"                  -> reducer_REDO(st)
      [] a.type = "CLEAR"                 -> reducer_CLEAR(st)
      [] OTHER                            -> st

(* A commit appends a snapshot: the model stops committing at MaxHistory. *)
CanCommit(st) == st.historyIndex + 1 < MaxHistory

-----------------------------------------------------------------------------
(* The heap of shape objects. *)

LiveRefs(st) ==
    {st.shapes[i] : i \in 1..Len(st.shapes)} \cup
    UNION {{st.history[k][i] : i \in 1..Len(st.history[k])} : k \in 1..Len(st.history)}

(* Garbage collection: an object no array refers to any more is gone. *)
Collect(hp, st) == [r \in Refs |-> IF r \in LiveRefs(st) THEN hp[r] ELSE NoShape]

FreeRefs == {r \in Refs : heap[r].type = "none"}
NewRef == CHOOSE r \in FreeRefs : \A q \in FreeRefs : r <= q

(* The objects a sequence of references points at. *)
Deref(hp, refs) == [i \in 1..Len(refs) |-> hp[refs[i]]]

(* Date.now(): a clock that never runs backwards and may stand still      *)
(* between two events handled in the same millisecond.                     *)
ClockReadings == now..MaxClock

-----------------------------------------------------------------------------
(* Whiteboard (part_004): the component's handlers.                        *)

(* The handler belongs to the mounted Whiteboard; it leaves the rest alone. *)
OnWhiteboard ==
    /\ mounted = "Whiteboard"
    /\ UNCHANGED <<mounted, roomVars>>

(* dispatch: the reducer's result becomes the state; objects that no      *)
(* array refers to any more leave the heap.                                *)
Dispatch(newState, newHeap) ==
    /\ state' = newState
    /\ heap' = Collect(newHeap, newState)

(* Every coordinate of a shape lies on the modelled part of the plane. *)
InCanvas(shape) ==
    /\ \A i \in 1..Len(shape.points) :
          Abs(shape.points[i].x) <= MaxCoord /\ Abs(shape.points[i].y) <= MaxCoord
    /\ \A c \in {shape.x, shape.y, shape.x1, shape.y1, shape.x2, shape.y2} :
          Abs(c) <= MaxCoord

(* The shape handlePointerDown creates for the tool at pos, with its id. *)
newShapeFor(t, pos, id) ==
    CASE t = "freehand" ->
           [NoShape EXCEPT !.id = id, !.type = "freehand", !.stroke = stroke,
                           !.points = <<pos>>]
      [] t = "eraser" ->
           [NoShape EXCEPT !.id = id, !.type = "eraser", !.stroke = eraserStroke,
                           !.points = <<pos>>]
      [] t \in {"rect", "circle"} ->
           [NoShape EXCEPT !.id = id, !.type = t, !.stroke = stroke,
                           !.x = pos.x, !.y = pos.y, !.width = 0, !.height = 0]
      [] t = "arrow" ->
           [NoShape EXCEPT !.id = id, !.type = "arrow", !.stroke = stroke,
                           !.x1 = pos.x, !.y1 = pos.y, !.x2 = pos.x, !.y2 = pos.y]
      [] t = "text" ->
           [NoShape EXCEPT !.id = id, !.type = "text", !.stroke = 0,
                           !.x = pos.x, !.y = pos.y, !.text = <<>>]

(* A variant of the hit search that runs from the first shape up. *)
topmostHit_bottomUp(px, py, types) ==
    LET hits == {i \in 1..Len(state.shapes) :
                    /\ heap[state.shapes[i]].type \in types
                    /\ isPointInShape(px, py, heap[state.shapes[i]])}
    IN IF hits = {} THEN NullIndex
       ELSE (CHOOSE i \in hits : \A j \in hits : j >= i) - 1

(* The 0-based index of the topmost shape of one of types under (px, py), *)
(* NullIndex when there is none: the loops from shapes.length - 1 down.   *)
topmostHit(px, py, types) ==
    LET hits == {i \in 1..Len(state.shapes) :
                    /\ heap[state.shapes[i]].type \in types
                    /\ isPointInShape(px, py, heap[state.shapes[i]])}
    IN IF hits = {} THEN NullIndex
       ELSE (CHOOSE i \in hits : \A j \in hits : j <= i) - 1

(* The types the select tool and the double click accept. *)
AnyShape == {"freehand", "eraser", "rect", "circle", "arrow", "text"}
TextShape == {"text"}

(* finishEditingText: shapes[editingShapeIndex] is read without a check,  *)
(* so with an index past the end the handler throws and changes nothing.  *)
finishEditingText ==
    /\ editingShapeIndex # NullIndex
    /\ editingShapeIndex < Len(state.shapes)
    /\ CanCommit(state)
    /\ LET currentShapes == state.shapes
           ref   == currentShapes[editingShapeIndex + 1]
           shape == heap[ref]
       IN IF shape.type = "text" /\ TrimIsEmpty(shape.text)
          THEN LET filteredShapes ==
                       FilterSeq(currentShapes,
                                 [i \in 1..Len(currentShapes) |->
                                     i - 1 # editingShapeIndex], 1)
               IN Dispatch(reducer(state, [type |-> "UPDATE_SHAPES",
                                           payload |-> filteredShapes]), heap)
          ELSE Dispatch(reducer(state, [type |-> "UPDATE_SHAPES",
                                        payload |-> currentShapes]),
                        [heap EXCEPT ![ref] = updateBoundingBox(shape)])
    /\ editingShapeIndex' = NullIndex

(* handlePointerDown.  The pointer is a single mouse pointer: a second     *)
(* pointer-down arrives only after the pointer-up (or leave) that ends the *)
(* first, which resets startPoint.                                         *)
handlePointerDown(pos, button, t) ==
    /\ OnWhiteboard
    /\ startPoint = <<>>
    /\ IF editingShapeIndex # NullIndex
       THEN /\ finishEditingText
            /\ UNCHANGED <<now, tool, isDrawing, startPoint, selectedIndices,
                           action, view>>
       ELSE /\ startPoint' = <<pos>>
            /\ IF tool = "pan" \/ button = 1
               THEN /\ action' = "panning"
                    /\ UNCHANGED <<now, heap, state, tool, isDrawing,
                                   selectedIndices, editingShapeIndex, view>>
               ELSE IF tool = "select"
               THEN LET i == topmostHit(pos.x, pos.y, AnyShape)
                    IN /\ IF i # NullIndex
                          THEN selectedIndices' = <<i>> /\ action' = "dragging"
                          ELSE selectedIndices' = <<>> /\ action' = action
                       /\ UNCHANGED <<now, heap, state, tool, isDrawing,
                                      editingShapeIndex, view>>
               ELSE /\ FreeRefs # {}
                    /\ CanCommit(state)
                    /\ now' = t
                    /\ LET newShape == updateBoundingBox(newShapeFor(tool, pos, t))
                           ref == NewRef
                       IN Dispatch(reducer(state, [type |-> "ADD_SHAPE",
                                                   payload |-> ref]),
                                   [heap EXCEPT ![ref] = newShape])
                    /\ IF tool = "text"
                       THEN /\ isDrawing' = FALSE
                            /\ editingShapeIndex' = Len(state.shapes)
                            /\ action' = action
                       ELSE /\ isDrawing' = TRUE
                            /\ action' = "drawing"
                            /\ editingShapeIndex' = editingShapeIndex
                    /\ UNCHANGED <<tool, selectedIndices, view>>

(* A selected shape moved by (dx, dy), its bounding box recomputed. *)
translated(shape, dx, dy) ==
    updateBoundingBox(
      IF shape.type \in {"freehand", "eraser"}
      THEN [shape EXCEPT !.points =
               [i \in 1..Len(shape.points) |->
                   Pt(shape.points[i].x + dx, shape.points[i].y + dy)]]
      ELSE IF shape.type = "arrow"
      THEN [shape EXCEPT !.x1 = @ + dx, !.y1 = @ + dy,
                         !.x2 = @ + dx, !.y2 = @ + dy]
      ELSE [shape EXCEPT !.x = @ + dx, !.y = @ + dy])

(* eraserBBox: the box around the pointer the eraser tests shapes against. *)
eraserBox(pos) ==
    BBox(pos.x - eraserStroke, pos.y - eraserStroke,
         eraserStroke * 2, eraserStroke * 2)

(* A variant of the eraser's filter that does not look at the type. *)
eraserKeeps_typeBlind(currentShapes, hp, pos, idx) ==
    LET eraserBBox == eraserBox(pos)
    IN \/ idx = Len(currentShapes)
       \/ ~boxesIntersect(eraserBBox, hp[currentShapes[idx]].bbox)

(* The shapes the eraser at pos leaves in the scene: the last one (the    *)
(* stroke itself), freehand and eraser shapes, and the shapes whose box   *)
(* does not intersect the eraser box.                                      *)
eraserKeeps(currentShapes, hp, pos, idx) ==
    LET eraserBBox == eraserBox(pos)
        shape == hp[currentShapes[idx]]
        intersect == boxesIntersect(eraserBBox, shape.bbox)
    IN \/ idx = Len(currentShapes)
       \/ ~(intersect /\ shape.type # "eraser" /\ shape.type # "freehand")

(* The eraser branch of handlePointerMove past its early return: pos is  *)
(* pushed onto the stroke (the last shape) and the scene is filtered.     *)
erased(currentShapes, hp, pos) ==
    LET lastRef == Last(currentShapes)
        pushed == [hp EXCEPT ![lastRef].points = Append(@, pos)]
    IN [shapes |-> FilterSeq(currentShapes,
                             [i \in 1..Len(currentShapes) |->
                                 eraserKeeps(currentShapes, pushed, pos, i)], 1),
        heap |-> pushed]

(* The last shape after a pointer-move of a drawing gesture to pos. *)
extended(lastShape, pos) ==
    updateBoundingBox(
      CASE lastShape.type \in {"freehand", "eraser"} ->
             [lastShape EXCEPT !.points = Append(@, pos)]
        [] lastShape.type \in {"rect", "circle"} ->
             [lastShape EXCEPT !.width = pos.x - lastShape.x,
                               !.height = pos.y - lastShape.y]
        [] lastShape.type = "arrow" ->
             [lastShape EXCEPT !.x2 = pos.x, !.y2 = pos.y]
        [] OTHER -> lastShape)

(* A variant of the pan that scales the movement by the zoom. *)
panned_scaled(v, movement) ==
    [v EXCEPT !.x = @ + (movement.x * 1000) \div v.zoom,
              !.y = @ + (movement.y * 1000) \div v.zoom]

(* The view after a pointer-move of a pan gesture: the raw screen         *)
(* movement is added to the offset.                                        *)
panned(v, movement) ==
    [v EXCEPT !.x = @ + movement.x, !.y = @ + movement.y]

handlePointerMove(pos, movement) ==
    /\ OnWhiteboard
    /\ startPoint # <<>>
    /\ IF action = "panning"
       THEN /\ Abs(panned(view, movement).x) <= MaxView
            /\ Abs(panned(view, movement).y) <= MaxView
            /\ view' = panned(view, movement)
            /\ UNCHANGED <<now, heap, state, tool, isDrawing, startPoint,
                           selectedIndices, action, editingShapeIndex>>
       ELSE IF action = "dragging" /\ Len(selectedIndices) > 0
       THEN LET dx == pos.x - startPoint[1].x
                dy == pos.y - startPoint[1].y
                index == selectedIndices[1]
            IN /\ index < Len(state.shapes)      \* else shape.type throws
               /\ LET ref == state.shapes[index + 1]
                      moved == translated(heap[ref], dx, dy)
                  IN /\ InCanvas(moved)
                     /\ Dispatch(reducer(state, [type |-> "SET_SHAPES_NO_HISTORY",
                                                 payload |-> state.shapes]),
                                 [heap EXCEPT ![ref] = moved])
               /\ startPoint' = <<pos>>
               /\ UNCHANGED <<now, tool, isDrawing, selectedIndices, action,
                              editingShapeIndex, view>>
       ELSE /\ isDrawing
            /\ Len(state.shapes) > 0
            /\ LET currentShapes == state.shapes
                   lastRef == Last(currentShapes)
                   lastShape == heap[lastRef]
               IN IF action = "drawing" /\ tool = "eraser"
                  THEN IF lastShape.type # "eraser"
                       THEN UNCHANGED <<heap, state>>
                       ELSE /\ Len(lastShape.points) < MaxPoints
                            /\ LET r == erased(currentShapes, heap, pos)
                               IN Dispatch(reducer(state,
                                              [type |-> "SET_SHAPES_NO_HISTORY",
                                               payload |-> r.shapes]),
                                           r.heap)
                  ELSE /\ lastShape.type \in {"freehand", "eraser"}
                             => Len(lastShape.points) < MaxPoints
                       /\ Dispatch(reducer(state, [type |-> "SET_SHAPES_NO_HISTORY",
                                                   payload |-> currentShapes]),
                                   [heap EXCEPT ![lastRef] = extended(lastShape, pos)])
            /\ UNCHANGED <<now, tool, isDrawing, startPoint, selectedIndices,
                           action, editingShapeIndex, view>>

(* A variant of the pointer-up normalisation that keeps the dragged        *)
(* geometry.                                                               *)
normalized_asDragged(lastShape) == updateBoundingBox(lastShape)

(* The last shape as handlePointerUp leaves it: a rect or circle dragged  *)
(* up or left gets its origin moved and its size made non-negative.       *)
normalized(lastShape) ==
    LET s1 == IF lastShape.type \in {"rect", "circle"} /\ lastShape.width < 0
              THEN [lastShape EXCEPT !.x = @ + lastShape.width,
                                     !.width = lastShape.width * (-1)]
              ELSE lastShape
        s2 == IF s1.type \in {"rect", "circle"} /\ s1.height < 0
              THEN [s1 EXCEPT !.y = @ + s1.height, !.height = s1.height * (-1)]
              ELSE s1
    IN updateBoundingBox(s2)

(* handlePointerUp, also the canvas' onPointerLeave. *)
handlePointerUp ==
    /\ OnWhiteboard
    /\ IF action = "drawing" /\ Len(state.shapes) > 0
       THEN /\ CanCommit(state)
            /\ LET currentShapes == state.shapes
                   lastRef == Last(currentShapes)
               IN Dispatch(reducer(state, [type |-> "UPDATE_SHAPES",
                                           payload |-> currentShapes]),
                           [heap EXCEPT ![lastRef] = normalized(heap[lastRef])])
       ELSE UNCHANGED <<heap, state>>
    /\ isDrawing' = FALSE
    /\ action' = "none"
    /\ startPoint' = <<>>
    /\ UNCHANGED <<now, tool, selectedIndices, editingShapeIndex, view>>

(* handleDoubleClick: the canvas' onDoubleClick, after the two clicks. *)
handleDoubleClick(pos) ==
    /\ OnWhiteboard
    /\ startPoint = <<>>
    /\ editingShapeIndex = NullIndex
    /\ LET i == topmostHit(pos.x, pos.y, TextShape)
       IN /\ i # NullIndex
          /\ tool' = "select"
          /\ editingShapeIndex' = i
          /\ selectedIndices' = <<i>>
    /\ UNCHANGED <<now, heap, state, isDrawing, startPoint, action, view>>

(* A variant of the Delete filter that also removes every shape above a   *)
(* selected one.                                                           *)
withoutSelected_andAbove(shapes, selected) ==
    FilterSeq(shapes,
              [i \in 1..Len(shapes) |->
                  \A k \in 1..Len(selected) : selected[k] > i - 1], 1)

(* shapes.filter((_, index) => !selectedIndices.includes(index)) *)
withoutSelected(shapes, selected) ==
    FilterSeq(shapes,
              [i \in 1..Len(shapes) |->
                  \A k \in 1..Len(selected) : selected[k] # i - 1], 1)

(* handleKeyDown, the window's keydown listener: it runs whatever the     *)
(* pointer is doing.  ctrl stands for e.ctrlKey || e.metaKey.              *)
handleKeyDown(key, ctrl) ==
    /\ OnWhiteboard
    /\ IF key \in {"Delete", "Backspace"}
       THEN /\ Len(selectedIndices) > 0
            /\ editingShapeIndex = NullIndex
            /\ CanCommit(state)
            /\ LET newShapes == withoutSelected(state.shapes, selectedIndices)
               IN Dispatch(reducer(state, [type |-> "UPDATE_SHAPES",
                                           payload |-> newShapes]), heap)
            /\ selectedIndices' = <<>>
            /\ UNCHANGED editingShapeIndex
       ELSE IF ctrl /\ key = "z"
       THEN /\ Dispatch(reducer(state, [type |-> "UNDO"]), heap)
            /\ UNCHANGED <<selectedIndices, editingShapeIndex>>
       ELSE IF ctrl /\ key = "y"
       THEN /\ Dispatch(reducer(state, [type |-> "REDO"]), heap)
            /\ UNCHANGED <<selectedIndices, editingShapeIndex>>
       ELSE /\ key = "Escape"
            /\ finishEditingText
            /\ UNCHANGED selectedIndices
    /\ UNCHANGED <<now, tool, isDrawing, startPoint, action, view>>

(* The text editor is rendered while editingShapeIndex names a text shape. *)
textareaShown ==
    /\ editingShapeIndex # NullIndex
    /\ editingShapeIndex < Len(state.shapes)
    /\ heap[state.shapes[editingShapeIndex + 1]].type = "text"

(* The textarea's onChange with the editor's new value. *)
textareaOnChange(value) ==
    /\ OnWhiteboard
    /\ textareaShown
    /\ LET ref == state.shapes[editingShapeIndex + 1]
       IN Dispatch(reducer(state, [type |-> "SET_SHAPES_NO_HISTORY",
                                   payload |-> state.shapes]),
                   [heap EXCEPT ![ref] =
                       updateBoundingBox([heap[ref] EXCEPT !.text = value])])
    /\ UNCHANGED <<now, tool, isDrawing, startPoint, selectedIndices, action,
                   editingShapeIndex, view>>

(* The textarea's onBlur. *)
textareaOnBlur ==
    /\ OnWhiteboard
    /\ textareaShown
    /\ finishEditingText
    /\ UNCHANGED <<now, tool, isDrawing, startPoint, selectedIndices, action, view>>

(* The toolbar is reached with the pointer off the canvas (the leave has  *)
(* ended any gesture) and, the click taking the focus, the editor blurred. *)
toolbarReachable ==
    /\ OnWhiteboard
    /\ startPoint = <<>>
    /\ action = "none"

setTool(t) ==
    /\ toolbarReachable
    /\ editingShapeIndex = NullIndex
    /\ tool' = t
    /\ UNCHANGED <<now, heap, state, isDrawing, startPoint, selectedIndices,
                   action, editingShapeIndex, view>>

undoButton ==
    /\ toolbarReachable
    /\ editingShapeIndex = NullIndex
    /\ Dispatch(reducer(state, [type |-> "UNDO"]), heap)
    /\ UNCHANGED <<now, tool, isDrawing, startPoint, selectedIndices, action,
                   editingShapeIndex, view>>

redoButton ==
    /\ toolbarReachable
    /\ editingShapeIndex = NullIndex
    /\ Dispatch(reducer(state, [type |-> "REDO"]), heap)
    /\ UNCHANGED <<now, tool, isDrawing, startPoint, selectedIndices, action,
                   editingShapeIndex, view>>

(* Clear All: finishEditingText(); dispatch CLEAR. *)
clearAllButton ==
    /\ toolbarReachable
    /\ editingShapeIndex # NullIndex => editingShapeIndex < Len(state.shapes)
    /\ Dispatch(reducer(state, [type |-> "CLEAR"]), heap)
    /\ editingShapeIndex' = NullIndex
    /\ UNCHANGED <<now, tool, isDrawing, startPoint, selectedIndices, action, view>>

-----------------------------------------------------------------------------
(* WhiteboardCanvas (WhiteboardCanvas.tsx): elements and whiteboardReducer. *)

Element(id, type, points, text) ==
    [id |-> id, type |-> type, points |-> points, text |-> text]

(* zoom is kept in thousandths: 1000 is zoom 1. *)
ZoomOne     == 1000
roomMinZoom == 100     \* Math.max(0.1, ...)
roomMaxZoom == 5000    \* Math.min(5, ...)

roomInitialState ==
    [elements |-> <<>>, selectedElementIds |-> <<>>, history |-> << <<>> >>,
     historyIndex |-> 0, zoom |-> ZoomOne, pan |-> Pt(0, 0)]

Includes(seq, v) == \E k \in 1..Len(seq) : seq[k] = v

(* Variants of whiteboardReducer's cases, used as above. *)
whiteboardReducer_REDO_cursorOnly(st) ==
    IF st.historyIndex < Len(st.history) - 1
    THEN [st EXCEPT !.historyIndex = st.historyIndex + 1]
    ELSE st

whiteboardReducer_LOAD_STATE_merging(st, elements) ==
    [st EXCEPT !.elements = st.elements \o elements]

whiteboardReducer_ADD_ELEMENT(st, element) ==
    LET newElements == Append(st.elements, element)
    IN [st EXCEPT !.elements = newElements,
                  !.history = Append(SubSeq(st.history, 1, st.historyIndex + 1),
                                     newElements),
                  !.historyIndex = st.historyIndex + 1]

(* { ...el, ...updates }: the fields updates names replace the element's. *)
whiteboardReducer_UPDATE_ELEMENT(st, id, updates) ==
    LET merged(el) == [f \in DOMAIN el |->
                          IF f \in DOMAIN updates THEN updates[f] ELSE el[f]]
        updatedElements == [i \in 1..Len(st.elements) |->
                               IF st.elements[i].id = id
                               THEN merged(st.elements[i]) ELSE st.elements[i]]
    IN [st EXCEPT !.elements = updatedElements]

whiteboardReducer_DELETE_ELEMENTS(st, ids) ==
    LET filteredElements ==
            FilterSeq(st.elements,
                      [i \in 1..Len(st.elements) |->
                          ~Includes(ids, st.elements[i].id)], 1)
    IN [st EXCEPT !.elements = filteredElements,
                  !.selectedElementIds = <<>>,
                  !.history = Append(SubSeq(st.history, 1, st.historyIndex + 1),
                                     filteredElements),
                  !.historyIndex = st.historyIndex + 1]

whiteboardReducer_SELECT_ELEMENTS(st, ids) ==
    [st EXCEPT !.selectedElementIds = ids]

whiteboardReducer_CLEAR_SELECTION(st) ==
    [st EXCEPT !.selectedElementIds = <<>>]

whiteboardReducer_UNDO(st) ==
    IF st.historyIndex > 0
    THEN [st EXCEPT !.elements = st.history[(st.historyIndex - 1) + 1],
                    !.historyIndex = st.historyIndex - 1,
                    !.selectedElementIds = <<>>]
    ELSE st

whiteboardReducer_REDO(st) ==
    IF st.historyIndex < Len(st.history) - 1
    THEN [st EXCEPT !.elements = st.history[(st.historyIndex + 1) + 1],
                    !.historyIndex = st.historyIndex + 1,
                    !.selectedElementIds = <<>>]
    ELSE st

(* A variant of CLEAR_ALL that resets the history as the standalone       *)
(* reducer's CLEAR does.                                                   *)
whiteboardReducer_CLEAR_ALL_resetting(st) ==
    [st EXCEPT !.elements = <<>>,
               !.selectedElementIds = <<>>,
               !.history = << <<>> >>,
               !.historyIndex = 0]

whiteboardReducer_CLEAR_ALL(st) ==
    LET emptyElements == <<>>
    IN [st EXCEPT !.elements = emptyElements,
                  !.selectedElementIds = <<>>,
                  !.history = Append(SubSeq(st.history, 1, st.historyIndex + 1),
                                     emptyElements),
                  !.historyIndex = st.historyIndex + 1]

(* A variant of SET_ZOOM that takes the requested zoom as it is. *)
whiteboardReducer_SET_ZOOM_unclamped(st, zoom) ==
    [st EXCEPT !.zoom = zoom]

whiteboardReducer_SET_ZOOM(st, zoom) ==
    [st EXCEPT !.zoom = Max2(roomMinZoom, Min2(roomMaxZoom, zoom))]

whiteboardReducer_SET_PAN(st, pan) ==
    [st EXCEPT !.pan = pan]

whiteboardReducer_LOAD_STATE(st, elements) ==
    [st EXCEPT !.elements = elements]

whiteboardReducer(st, a) ==
    CASE a.type = "ADD_ELEMENT"     -> whiteboardReducer_ADD_ELEMENT(st, a.element)
      [] a.type = "UPDATE_ELEMENT"  -> whiteboardReducer_UPDATE_ELEMENT(st, a.id, a.updates)
      [] a.type = "DELETE_ELEMENTS" -> whiteboardReducer_DELETE_ELEMENTS(st, a.ids)
      [] a.type = "SELECT_ELEMENTS" -> whiteboardReducer_SELECT_ELEMENTS(st, a.ids)
      [] a.type = "CLEAR_SELECTION" -> whiteboardReducer_CLEAR_SELECTION(st)
      [] a.type = "UNDO"            -> whiteboardReducer_UNDO(st)
      [] a.type = "REDO"            -> whiteboardReducer_REDO(st)
      [] a.type = "CLEAR_ALL"       -> whiteboardReducer_CLEAR_ALL(st)
      [] a.type = "SET_ZOOM"        -> whiteboardReducer_SET_ZOOM(st, a.zoom)
      [] a.type = "SET_PAN"         -> whiteboardReducer_SET_PAN(st, a.pan)
      [] a.type = "LOAD_STATE"      -> whiteboardReducer_LOAD_STATE(st, a.state)
      [] OTHER                      -> st

-----------------------------------------------------------------------------
(* WhiteboardCanvas: socket, timers and handlers.                          *)

roomId == "room-1"

OnCanvas ==
    /\ mounted = "WhiteboardCanvas"
    /\ UNCHANGED <<mounted, boardVars>>

(* emitWhiteboardUpdate as a handler's closure holds it: state.elements   *)
(* is the elements of the render the closure was made in, passed as data. *)
(* A variant of emitWhiteboardUpdate without the test for a socket. *)
emitWhiteboardUpdate_unguarded(data) ==
    << [event |-> "whiteboard-update", boardId |-> roomId, data |-> data] >>

emitWhiteboardUpdate(data) ==
    IF socket
    THEN << [event |-> "whiteboard-update", boardId |-> roomId, data |-> data] >>
    ELSE <<>>

(* A handler run that does not call socket.emit. *)
NoEmit == emitted' = <<>>

(* setTimeout(() => emitWhiteboardUpdate(), 0) after a dispatch: the      *)
(* callback keeps the closure of the render in which the handler ran, so  *)
(* data is that render's elements; result is the elements the dispatch    *)
(* produced.                                                               *)
CanSchedule == Len(timers) < MaxQueue
scheduleEmit ==
    timers' = Append(timers, [data |-> roomState.elements,
                              result |-> roomState'.elements])

(* The eraser's hit test of handleMouseDown. *)
eraserHits(el, point) ==
    IF el.type = "freehand"
    THEN \E i \in 1..Len(el.points) :
            (el.points[i].x - point.x) * (el.points[i].x - point.x)
              + (el.points[i].y - point.y) * (el.points[i].y - point.y) < 10 * 10
    ELSE IF Len(el.points) > 0
    THEN LET xs == [i \in 1..Len(el.points) |-> el.points[i].x]
             ys == [i \in 1..Len(el.points) |-> el.points[i].y]
         IN /\ point.x >= SeqMin(xs) /\ point.x <= SeqMax(xs)
            /\ point.y >= SeqMin(ys) /\ point.y <= SeqMax(ys)
    ELSE FALSE

(* state.elements.findLast(...): the index of the hit element, 0 if none. *)
findLastHit(elements, point) ==
    LET hits == {i \in 1..Len(elements) : eraserHits(elements[i], point)}
    IN IF hits = {} THEN 0 ELSE CHOOSE i \in hits : \A j \in hits : j <= i

CanCommitRoom(st) == st.historyIndex + 1 < MaxRoomHistory

handleMouseDown(point, t) ==
    /\ OnCanvas
    /\ IF currentTool = "eraser"
       THEN LET h == findLastHit(roomState.elements, point)
            IN /\ h # 0
               /\ CanCommitRoom(roomState)
               /\ CanSchedule
               /\ roomState' = whiteboardReducer(roomState,
                       [type |-> "DELETE_ELEMENTS",
                        ids |-> <<roomState.elements[h].id>>])
               /\ scheduleEmit
               /\ NoEmit
               /\ UNCHANGED <<now, socket, currentTool, isDrawingC,
                              currentElement, textInput>>
       ELSE IF currentTool = "text"
       THEN /\ textInput' = << [x |-> point.x, y |-> point.y, value |-> <<>>] >>
            /\ NoEmit
            /\ UNCHANGED <<now, socket, roomState, currentTool,
                           isDrawingC, currentElement, timers>>
       ELSE /\ isDrawingC' = TRUE
            /\ IF currentTool \in {"freehand", "rect", "circle", "arrow"}
               THEN /\ now' = t
                    /\ currentElement' = << Element(t, currentTool, <<point>>, <<>>) >>
               ELSE UNCHANGED <<now, currentElement>>
            /\ NoEmit
            /\ UNCHANGED <<socket, roomState, currentTool, textInput, timers>>

handleMouseMove(point) ==
    /\ OnCanvas
    /\ isDrawingC
    /\ currentElement # <<>>
    /\ LET el == currentElement[1]
       IN IF currentTool = "freehand"
          THEN /\ Len(el.points) < MaxPoints
               /\ currentElement' = << [el EXCEPT !.points = Append(@, point)] >>
          ELSE /\ currentTool \in {"rect", "circle", "arrow"}
               /\ currentElement' = << [el EXCEPT !.points = <<el.points[1], point>>] >>
    /\ NoEmit
    /\ UNCHANGED <<now, socket, roomState, currentTool, isDrawingC,
                   textInput, timers>>

(* handleMouseUp, also the canvas' onMouseLeave. *)
handleMouseUp ==
    /\ OnCanvas
    /\ IF currentElement # <<>>
       THEN /\ CanCommitRoom(roomState)
            /\ Len(roomState.elements) < MaxShapes
            /\ CanSchedule
            /\ roomState' = whiteboardReducer(roomState,
                    [type |-> "ADD_ELEMENT", element |-> currentElement[1]])
            /\ currentElement' = <<>>
            /\ scheduleEmit
       ELSE UNCHANGED <<roomState, currentElement, timers>>
    /\ isDrawingC' = FALSE
    /\ NoEmit
    /\ UNCHANGED <<now, socket, currentTool, textInput>>

(* The toolbar is reached with the pointer off the canvas (the leave has  *)
(* ended any gesture); the click takes the focus from the text input.     *)
canvasToolbarReachable ==
    /\ ~isDrawingC
    /\ currentElement = <<>>
    /\ textInput = <<>>

setCurrentTool(t) ==
    /\ OnCanvas
    /\ canvasToolbarReachable
    /\ currentTool' = t
    /\ NoEmit
    /\ UNCHANGED <<now, socket, roomState, isDrawingC, currentElement,
                   textInput, timers>>

(* The undo button is disabled while historyIndex <= 0. *)
handleUndo ==
    /\ OnCanvas
    /\ canvasToolbarReachable
    /\ ~(roomState.historyIndex <= 0)
    /\ roomState' = whiteboardReducer(roomState, [type |-> "UNDO"])
    /\ emitted' = emitWhiteboardUpdate(roomState.elements)
    /\ UNCHANGED <<now, socket, currentTool, isDrawingC, currentElement,
                   textInput, timers>>

(* The redo button is disabled while historyIndex >= history.length - 1. *)
handleRedo ==
    /\ OnCanvas
    /\ canvasToolbarReachable
    /\ ~(roomState.historyIndex >= Len(roomState.history) - 1)
    /\ roomState' = whiteboardReducer(roomState, [type |-> "REDO"])
    /\ emitted' = emitWhiteboardUpdate(roomState.elements)
    /\ UNCHANGED <<now, socket, currentTool, isDrawingC, currentElement,
                   textInput, timers>>

handleClear ==
    /\ OnCanvas
    /\ canvasToolbarReachable
    /\ CanCommitRoom(roomState)
    /\ roomState' = whiteboardReducer(roomState, [type |-> "CLEAR_ALL"])
    /\ emitted' = emitWhiteboardUpdate(roomState.elements)
    /\ UNCHANGED <<now, socket, currentTool, isDrawingC, currentElement,
                   textInput, timers>>

(* The text input's onChange. *)
textInputOnChange(value) ==
    /\ OnCanvas
    /\ textInput # <<>>
    /\ textInput' = << [textInput[1] EXCEPT !.value = value] >>
    /\ NoEmit
    /\ UNCHANGED <<now, socket, roomState, currentTool, isDrawingC,
                   currentElement, timers>>

(* The text input's onBlur (Enter blurs it too). *)
textInputOnBlur(t) ==
    /\ OnCanvas
    /\ textInput # <<>>
    /\ IF ~TrimIsEmpty(textInput[1].value)
       THEN /\ CanCommitRoom(roomState)
            /\ Len(roomState.elements) < MaxShapes
            /\ CanSchedule
            /\ now' = t
            /\ roomState' = whiteboardReducer(roomState,
                    [type |-> "ADD_ELEMENT",
                     element |-> Element(t, "text",
                                         <<Pt(textInput[1].x, textInput[1].y)>>,
                                         textInput[1].value)])
            /\ scheduleEmit
       ELSE UNCHANGED <<now, roomState, timers>>
    /\ textInput' = <<>>
    /\ NoEmit
    /\ UNCHANGED <<socket, currentTool, isDrawingC, currentElement>>

(* A pending setTimeout callback runs. *)
timerFires ==
    /\ OnCanvas
    /\ timers # <<>>
    /\ emitted' = emitWhiteboardUpdate(Head(timers).data)
    /\ timers' = Tail(timers)
    /\ UNCHANGED <<now, socket, roomState, currentTool, isDrawingC,
                   currentElement, textInput>>

(* socket.on('whiteboard-update', data => dispatch LOAD_STATE): the      *)
(* listener is registered only when a socket was supplied, and runs with  *)
(* the list another participant sent.                                      *)
onWhiteboardUpdate(data) ==
    /\ OnCanvas
    /\ socket
    /\ roomState' = whiteboardReducer(roomState,
            [type |-> "LOAD_STATE", state |-> data])
    /\ NoEmit
    /\ UNCHANGED <<now, socket, currentTool, isDrawingC, currentElement, textInput,
                   timers>>

(* Scenes other participants broadcast. *)
RemoteScenes ==
    { <<>>,
      << Element(1, "rect", <<Pt(10, 10), Pt(40, 40)>>, <<>>) >>,
      << Element(2, "freehand", <<Pt(40, 40)>>, <<>>),
         Element(1, "text", <<Pt(10, 10)>>, <<"a">>) >> }

-----------------------------------------------------------------------------
(* Specifications.  mounted names what is under test, so each             *)
(* specification explores one component.                                   *)

InitOf(component) ==
    /\ mounted = component
    /\ now = 0
    /\ heap = [r \in Refs |-> NoShape]
    /\ state = initialState
    /\ tool = "select"
    /\ isDrawing = FALSE
    /\ startPoint = <<>>
    /\ selectedIndices = <<>>
    /\ action = "none"
    /\ editingShapeIndex = NullIndex
    /\ view = [x |-> 0, y |-> 0, zoom |-> ZoomOne]
    /\ socket \in (IF component = "WhiteboardCanvas" THEN BOOLEAN ELSE {FALSE})
    /\ roomState = roomInitialState
    /\ currentTool = "freehand"
    /\ isDrawingC = FALSE
    /\ currentElement = <<>>
    /\ textInput = <<>>
    /\ timers = <<>>
    \* the mount effect: socket.emit('join-board', roomId)
    /\ emitted = IF socket THEN << [event |-> "join-board", boardId |-> roomId,
                                    data |-> <<>>] >>
                 ELSE <<>>

(* The standalone whiteboard with its drawing, text and eraser tools, the *)
(* keyboard shortcuts and the toolbar buttons.  The clock is not read      *)
(* twice in a millisecond here: shape ids play no part.                    *)
DrawTools == {"freehand", "rect", "circle", "arrow", "text", "eraser"}

Init == InitOf("Whiteboard")

Next ==
    \/ \E t \in DrawTools : setTool(t)
    \/ \E pos \in Positions : handlePointerDown(pos, 0, now)
    \/ \E pos \in Positions : handlePointerMove(pos, Pt(0, 0))
    \/ handlePointerUp
    \/ \E key \in {"z", "y", "Escape"} : handleKeyDown(key, key # "Escape")
    \/ \E value \in TextValues : textareaOnChange(value)
    \/ textareaOnBlur
    \/ undoButton
    \/ redoButton
    \/ clearAllButton

Spec == Init /\ [][Next]_vars

(* The room canvas with the freehand and eraser tools, the toolbar, the   *)
(* pending emits and the updates of other participants.  Every reading of *)
(* the clock is later than the one before.                                 *)
CanvasTools == {"freehand", "eraser"}
LaterReadings == {t \in ClockReadings : t > now}

InitCanvas == InitOf("WhiteboardCanvas")

NextCanvas ==
    \/ \E t \in CanvasTools : setCurrentTool(t)
    \/ \E point \in Positions, t \in LaterReadings : handleMouseDown(point, t)
    \/ \E point \in Positions : handleMouseMove(point)
    \/ handleMouseUp
    \/ handleUndo
    \/ handleRedo
    \/ handleClear
    \/ timerFires
    \/ \E data \in RemoteScenes : onWhiteboardUpdate(data)

SpecCanvas == InitCanvas /\ [][NextCanvas]_vars

(* Both components with their eraser tools and what the eraser acts on:   *)
(* freehand strokes and rectangles in the whiteboard, freehand strokes in *)
(* the canvas.                                                             *)
InitErasers == InitOf("Whiteboard") \/ InitOf("WhiteboardCanvas")

NextErasers ==
    \/ \E t \in {"freehand", "rect", "eraser"} : setTool(t)
    \/ \E pos \in Positions : handlePointerDown(pos, 0, now)
    \/ \E pos \in Positions : handlePointerMove(pos, Pt(0, 0))
    \/ handlePointerUp
    \/ \E key \in {"z", "y"} : handleKeyDown(key, TRUE)
    \/ \E t \in CanvasTools : setCurrentTool(t)
    \/ \E point \in Positions, t \in LaterReadings : handleMouseDown(point, t)
    \/ \E point \in Positions : handleMouseMove(point)
    \/ handleMouseUp
    \/ handleUndo
    \/ handleRedo
    \/ timerFires

SpecErasers == InitErasers /\ [][NextErasers]_vars

-----------------------------------------------------------------------------
(* The two reducers on their own: any action, with payloads from small    *)
(* sets.  The standalone reducer never looks into a shape, so a shape is   *)
(* its reference here.                                                     *)

ShapeLists == UNION {[1..k -> Refs] : k \in 0..MaxShapes}

ReducerCommits ==
    {[type |-> "ADD_SHAPE", payload |-> r] : r \in Refs}
    \cup {[type |-> "UPDATE_SHAPES", payload |-> l] : l \in ShapeLists}

ReducerUndoRedo == {[type |-> "UNDO"], [type |-> "REDO"]}

ReducerActions ==
    ReducerCommits \cup ReducerUndoRedo
    \cup {[type |-> "SET_SHAPES_NO_HISTORY", payload |-> l] : l \in ShapeLists}
    \cup {[type |-> "CLEAR"]}

RoomElements ==
    { Element(1, "rect", <<Pt(10, 10), Pt(40, 40)>>, <<>>),
      Element(2, "freehand", <<Pt(40, 40)>>, <<>>) }

WhiteboardReducerCommits ==
    {[type |-> "ADD_ELEMENT", element |-> el] : el \in RoomElements}
    \cup {[type |-> "DELETE_ELEMENTS", ids |-> ids] : ids \in {<<1>>, <<2, 1>>}}

WhiteboardReducerActions ==
    WhiteboardReducerCommits \cup ReducerUndoRedo
    \cup {[type |-> "UPDATE_ELEMENT", id |-> 1, updates |-> [text |-> <<"a">>]]}
    \cup {[type |-> "SELECT_ELEMENTS", ids |-> <<1>>]}
    \cup {[type |-> "CLEAR_SELECTION"], [type |-> "CLEAR_ALL"]}
    \cup {[type |-> "SET_ZOOM", zoom |-> z] : z \in {50, 1100, 6000}}
    \cup {[type |-> "SET_PAN", pan |-> Pt(10, 10)]}
    \cup {[type |-> "LOAD_STATE", state |-> d] : d \in RemoteScenes}

dispatchReducer(a) ==
    /\ mounted = "reducer"
    /\ a.type \in {"ADD_SHAPE", "UPDATE_SHAPES"} => CanCommit(state)
    /\ a.type = "ADD_SHAPE" => Len(state.shapes) < MaxShapes
    /\ state' = reducer(state, a)
    /\ UNCHANGED <<mounted, now, heap, tool, isDrawing, startPoint, selectedIndices,
                   action, editingShapeIndex, view, roomVars>>

dispatchWhiteboardReducer(a) ==
    /\ mounted = "whiteboardReducer"
    /\ a.type \in {"ADD_ELEMENT", "DELETE_ELEMENTS", "CLEAR_ALL"}
          => CanCommitRoom(roomState)
    /\ a.type = "ADD_ELEMENT" => Len(roomState.elements) < MaxShapes
    /\ roomState' = whiteboardReducer(roomState, a)
    /\ UNCHANGED <<mounted, now, boardVars, socket, currentTool, isDrawingC,
                   currentElement, textInput, timers, emitted>>

InitReducers == InitOf("reducer") \/ InitOf("whiteboardReducer")

NextReducers ==
    \/ \E a \in ReducerActions : dispatchReducer(a)
    \/ \E a \in WhiteboardReducerActions : dispatchWhiteboardReducer(a)

SpecReducers == InitReducers /\ [][NextReducers]_vars

(* The reducers under commits, UNDO and REDO only. *)
NextCommits ==
    \/ \E a \in ReducerCommits \cup ReducerUndoRedo : dispatchReducer(a)
    \/ \E a \in WhiteboardReducerCommits \cup ReducerUndoRedo :
          dispatchWhiteboardReducer(a)

SpecCommits == InitReducers /\ [][NextCommits]_vars

-----------------------------------------------------------------------------
(* Properties of the history (History Manager).                           *)

(* C1: in both reducers every state reachable by any sequence of actions  *)
(* has a non-empty history and 0 <= historyIndex < length(history).       *)
C1_HistoryIndexInRange ==
    /\ Len(state.history) > 0
    /\ 0 <= state.historyIndex
    /\ state.historyIndex < Len(state.history)
    /\ Len(roomState.history) > 0
    /\ 0 <= roomState.historyIndex
    /\ roomState.historyIndex < Len(roomState.history)

(* The cursor back at 0 with later snapshots still in the history. *)
C1_CursorAtFirstOfMany ==
    /\ mounted = "reducer"
    /\ state.historyIndex = 0
    /\ Len(state.history) = MaxHistory

(* history and historyIndex after a commit of scene. *)
Committed(oldHistory, oldIndex, newHistory, newIndex, scene) ==
    /\ newHistory = Append(SubSeq(oldHistory, 1, oldIndex + 1), scene)
    /\ newIndex = Len(newHistory) - 1

(* The scene a committing action produces. *)
NewScene(a, shapes) ==
    CASE a.type = "ADD_SHAPE"       -> Append(shapes, a.payload)
      [] a.type = "UPDATE_SHAPES"   -> a.payload
      [] a.type = "ADD_ELEMENT"     -> Append(shapes, a.element)
      [] a.type = "DELETE_ELEMENTS" ->
             LET Kept(el) == ~Includes(a.ids, el.id) IN SelectSeq(shapes, Kept)

(* C2: every committing action (ADD_SHAPE, UPDATE_SHAPES; ADD_ELEMENT,    *)
(* DELETE_ELEMENTS) leaves history = old history[0..historyIndex]         *)
(* followed by the new scene, historyIndex at the last position, and a    *)
(* REDO right after it changes nothing.                                    *)
C2_CommitTruncatesAndAppends ==
    [][ /\ \A a \in ReducerCommits :
              dispatchReducer(a) =>
                 /\ state'.shapes = NewScene(a, state.shapes)
                 /\ Committed(state.history, state.historyIndex,
                              state'.history, state'.historyIndex, state'.shapes)
                 /\ reducer(state', [type |-> "REDO"]) = state'
        /\ \A a \in WhiteboardReducerCommits :
              dispatchWhiteboardReducer(a) =>
                 /\ roomState'.elements = NewScene(a, roomState.elements)
                 /\ Committed(roomState.history, roomState.historyIndex,
                              roomState'.history, roomState'.historyIndex,
                              roomState'.elements)
                 /\ whiteboardReducer(roomState', [type |-> "REDO"]) = roomState'
      ]_vars

(* A commit made below the end of the history: the snapshot it appended   *)
(* is shorter than the one before it.                                      *)
C2_CommittedAtTheEnd ==
    /\ mounted = "whiteboardReducer"
    /\ roomState.historyIndex = Len(roomState.history) - 1
    /\ roomState.historyIndex >= 2
    /\ roomState.elements = roomState.history[roomState.historyIndex + 1]
    /\ Len(roomState.elements) < Len(roomState.history[roomState.historyIndex])

(* C3: in every state reached by commits, UNDO and REDO with              *)
(* historyIndex > 0, UNDO then REDO gives back the same scene and the     *)
(* same historyIndex; UNDO and REDO never change the history sequence.   *)
C3_UndoRedoRoundTrip ==
    /\ [](state.historyIndex > 0 =>
             LET back == reducer(reducer(state, [type |-> "UNDO"]),
                                 [type |-> "REDO"])
             IN /\ back.shapes = state.shapes
                /\ back.historyIndex = state.historyIndex)
    /\ [](roomState.historyIndex > 0 =>
             LET back == whiteboardReducer(
                             whiteboardReducer(roomState, [type |-> "UNDO"]),
                             [type |-> "REDO"])
             IN /\ back.elements = roomState.elements
                /\ back.historyIndex = roomState.historyIndex)
    /\ [][ \A a \in ReducerUndoRedo :
              /\ dispatchReducer(a) => state'.history = state.history
              /\ dispatchWhiteboardReducer(a) =>
                    roomState'.history = roomState.history ]_vars

(* The cursor strictly inside the history: an UNDO has been taken and     *)
(* both UNDO and REDO can move. *)
C3_CursorInside ==
    /\ mounted = "whiteboardReducer"
    /\ 0 < roomState.historyIndex
    /\ roomState.historyIndex < Len(roomState.history) - 1
    /\ roomState.elements # <<>>

RECURSIVE UndoTimes(_, _)
UndoTimes(st, n) ==
    IF n = 0 THEN st ELSE UndoTimes(reducer(st, [type |-> "UNDO"]), n - 1)

(* st is what N = length(shapes) ADD_SHAPE actions make of initialState. *)
StraightAdds(st) ==
    /\ Len(st.history) = Len(st.shapes) + 1
    /\ st.historyIndex = Len(st.shapes)
    /\ \A k \in 1..Len(st.history) : st.history[k] = SubSeq(st.shapes, 1, k - 1)

(* C4: after N shapes committed one after another from the initial state, *)
(* N UNDOs give the empty scene at historyIndex 0 and one more UNDO       *)
(* changes nothing.                                                        *)
C4_UndoAllReturnsToEmpty ==
    /\ [](StraightAdds(state) =>
             LET z == UndoTimes(state, Len(state.shapes))
             IN /\ z.shapes = <<>>
                /\ z.historyIndex = 0
                /\ z.history = state.history
                /\ reducer(z, [type |-> "UNDO"]) = z)
    /\ [][ (StraightAdds([state EXCEPT !.shapes = Last(state.history),
                                       !.historyIndex = Len(state.history) - 1])
            /\ state.historyIndex = 0
            /\ dispatchReducer([type |-> "UNDO"])) => state' = state ]_vars

(* MaxShapes shapes were added and every one of them undone. *)
C4_AllUndone ==
    /\ mounted = "reducer"
    /\ Len(state.history) = MaxShapes + 1
    /\ StraightAdds([state EXCEPT !.shapes = Last(state.history),
                                  !.historyIndex = Len(state.history) - 1])
    /\ state.historyIndex = 0
    /\ state.shapes = <<>>

-----------------------------------------------------------------------------
(* Properties of the scene, the eraser and the room's messages.           *)

(* C5: in the standalone whiteboard shapes = history[historyIndex] in     *)
(* every reachable state, in the middle of gestures too.                   *)
C5_ShapesIsSnapshotAtCursor ==
    state.shapes = state.history[state.historyIndex + 1]

(* C6: after a 'whiteboard-update' carrying the list D is processed,      *)
(* state.elements is D exactly, whatever the local state was.              *)
C6_RemoteUpdateReplacesScene ==
    [][ \A D \in RemoteScenes :
           onWhiteboardUpdate(D) => roomState'.elements = D ]_vars

(* A remote scene shown over a local history that holds other elements. *)
C6_RemoteSceneOverLocalHistory ==
    /\ mounted = "WhiteboardCanvas"
    /\ roomState.elements \in RemoteScenes
    /\ Len(roomState.elements) = 2
    /\ roomState.historyIndex > 0
    /\ roomState.history[roomState.historyIndex + 1] # <<>>
    /\ \A i \in 1..Len(roomState.history[roomState.historyIndex + 1]) :
          ~Includes(roomState.elements,
                    roomState.history[roomState.historyIndex + 1][i])

(* The 'whiteboard-update' message whose data is the given scene. *)
UpdateMessage(scene) ==
    [event |-> "whiteboard-update", boardId |-> roomId, data |-> scene]

(* C7: with a socket, every 'whiteboard-update' emitted for a local       *)
(* change carries boardId = roomId and, as data, the elements that result *)
(* from the change: for undo, redo and clear the elements after the       *)
(* handler's dispatch, for a deferred emit the elements produced by the   *)
(* dispatch that scheduled it.                                             *)
C7_EmitCarriesResultingScene ==
    [][ /\ (socket /\ (handleUndo \/ handleRedo \/ handleClear))
              => emitted' = << UpdateMessage(roomState'.elements) >>
        /\ (socket /\ timerFires)
              => emitted' = << UpdateMessage(Head(timers).result) >> ]_vars

(* C8: in the room canvas state.elements = history[historyIndex] in every *)
(* reachable state, after remote updates too.                              *)
C8_ElementsIsSnapshotAtCursor ==
    roomState.elements = roomState.history[roomState.historyIndex + 1]

ErasableTypes == {"rect", "circle", "arrow", "text"}

(* An erasable shape of the scene, other than its last, overlaps the      *)
(* eraser box at pos.                                                      *)
OverlappedLeft(shapes, hp, pos) ==
    \E i \in 1..(Len(shapes) - 1) :
        /\ hp[shapes[i]].type \in ErasableTypes
        /\ boxesIntersect(eraserBox(pos), hp[shapes[i]].bbox)

(* C9: during an eraser gesture every pointer-move removes each rect,     *)
(* circle, arrow or text shape whose bbox overlaps the eraser box at the  *)
(* pointer, without appending a snapshot, and the scene committed at      *)
(* pointer-up holds no shape that the stroke's moves passed over.         *)
C9_EraserRemovesOverlapped ==
    [][ /\ \A pos \in Positions :
              (tool = "eraser" /\ action = "drawing"
               /\ handlePointerMove(pos, Pt(0, 0)))
                 => /\ ~OverlappedLeft(state'.shapes, heap', pos)
                    /\ state'.history = state.history
                    /\ state'.historyIndex = state.historyIndex
        /\ (tool = "eraser" /\ action = "drawing" /\ handlePointerUp
            /\ state.shapes # <<>>
            /\ heap[Last(state.shapes)].type = "eraser")
              => LET points == heap[Last(state.shapes)].points
                 IN \A k \in 2..Len(points) :
                       ~OverlappedLeft(state'.shapes, heap', points[k]) ]_vars

(* A pointer event handled by the standalone whiteboard with the eraser. *)
EraserPointerEvent ==
    /\ mounted = "Whiteboard"
    /\ tool = "eraser"
    /\ \/ \E pos \in Positions : handlePointerDown(pos, 0, now)
       \/ \E pos \in Positions : handlePointerMove(pos, Pt(0, 0))
       \/ handlePointerUp

(* Every freehand shape of the scene is in the next scene, still freehand. *)
FreehandShapesKept ==
    \A i \in 1..Len(state.shapes) :
        heap[state.shapes[i]].type = "freehand"
           => /\ \E j \in 1..Len(state'.shapes) : state'.shapes[j] = state.shapes[i]
              /\ heap'[state.shapes[i]].type = "freehand"
              /\ heap'[state.shapes[i]].id = heap[state.shapes[i]].id

(* A mouse-down handled by the room canvas with the eraser at point. *)
EraserMouseDown(point) ==
    /\ mounted = "WhiteboardCanvas"
    /\ currentTool = "eraser"
    /\ \E t \in LaterReadings : handleMouseDown(point, t)

-----------------------------------------------------------------------------
(* Rectangles and circles dragged in every direction.                      *)

DragPositions == Positions \cup {Pt(-5, -5)}

NextRects ==
    \/ \E t \in {"rect", "circle"} : setTool(t)
    \/ \E pos \in DragPositions : handlePointerDown(pos, 0, now)
    \/ \E pos \in DragPositions : handlePointerMove(pos, Pt(0, 0))
    \/ handlePointerUp
    \/ \E key \in {"z", "y"} : handleKeyDown(key, TRUE)

SpecRects == Init /\ [][NextRects]_vars

(* C11: the pointer-up that ends a rect or circle drawing gesture commits *)
(* the dragged shape with width >= 0 and height >= 0, covering the same   *)
(* region with its origin at the minimum corner, and a bbox equal to that *)
(* geometry.                                                               *)
C11_PointerUpNormalizesRect ==
    [][ (/\ action = "drawing"
         /\ handlePointerUp
         /\ state.shapes # <<>>
         /\ heap[Last(state.shapes)].type \in {"rect", "circle"})
        => LET dragged   == heap[Last(state.shapes)]
               committed == heap'[Last(state'.shapes)]
           IN /\ state'.shapes = state.shapes
              /\ Last(state'.history) = state'.shapes
              /\ state'.historyIndex = Len(state'.history) - 1
              /\ committed.type = dragged.type
              /\ committed.width >= 0
              /\ committed.height >= 0
              /\ committed.x = Min2(dragged.x, dragged.x + dragged.width)
              /\ committed.y = Min2(dragged.y, dragged.y + dragged.height)
              /\ committed.width = Abs(dragged.width)
              /\ committed.height = Abs(dragged.height)
              /\ committed.bbox = BBox(committed.x, committed.y,
                                       committed.width, committed.height)
      ]_vars

(* The rectangle dragged from (10,10) to (-5,-5), committed. *)
C11_RectDraggedUpLeftCommitted ==
    /\ action = "none"
    /\ state.shapes # <<>>
    /\ state.shapes = Last(state.history)
    /\ LET c == heap[Last(state.shapes)]
       IN /\ c.type = "rect"
          /\ c.x = -5 /\ c.y = -5 /\ c.width = 15 /\ c.height = 15
          /\ c.bbox = BBox(-5, -5, 15, 15)

-----------------------------------------------------------------------------
(* The text shapes of a scene whose content is empty.                      *)
EmptyTexts(scene) ==
    {i \in 1..Len(scene) : heap[scene[i]].type = "text" /\ heap[scene[i]].text = <<>>}

(* C12: once the text editor is closed, no text shape with empty content  *)
(* is in shapes, after any sequence of UNDO and REDO (the shape created   *)
(* by the text tool and blurred without typing is gone for good).         *)
C12_NoEmptyTextInScene ==
    editingShapeIndex = NullIndex => EmptyTexts(state.shapes) = {}

-----------------------------------------------------------------------------
(* Selecting, dragging and deleting rectangles, with keyboard undo and     *)
(* redo and Clear All.                                                     *)

SelectTools == {"rect", "select"}

NextSelect ==
    \/ \E t \in SelectTools : setTool(t)
    \/ \E pos \in Positions : handlePointerDown(pos, 0, now)
    \/ \E pos \in Positions : handlePointerMove(pos, Pt(0, 0))
    \/ handlePointerUp
    \/ \E key \in {"Delete", "Backspace", "z", "y"} : handleKeyDown(key, TRUE)
    \/ clearAllButton

SpecSelect == Init /\ [][NextSelect]_vars

(* The ids of the elements of a room scene. *)
ElementIds(elements) == {elements[i].id : i \in 1..Len(elements)}

(* C13: the selection refers only to shapes of the current scene: every   *)
(* entry of selectedIndices is an index into shapes, every id in          *)
(* selectedElementIds is the id of an element of elements.                *)
C13_SelectionWithinScene ==
    /\ \A k \in 1..Len(selectedIndices) :
           selectedIndices[k] >= 0 /\ selectedIndices[k] < Len(state.shapes)
    /\ \A k \in 1..Len(roomState.selectedElementIds) :
           roomState.selectedElementIds[k] \in ElementIds(roomState.elements)

-----------------------------------------------------------------------------
(* Shape creation in both components with Date.now() read at any time:    *)
(* the clock may show the reading it showed before.                        *)

NextIds ==
    \/ \E t \in {"rect", "text"} : setTool(t)
    \/ \E pos \in Positions, t \in ClockReadings : handlePointerDown(pos, 0, t)
    \/ handlePointerUp
    \/ \E value \in TextValues : textareaOnChange(value)
    \/ textareaOnBlur
    \/ \E t \in {"freehand", "rect"} : setCurrentTool(t)
    \/ \E point \in Positions, t \in ClockReadings : handleMouseDown(point, t)
    \/ handleMouseUp
    \/ timerFires
    \/ \E data \in RemoteScenes : onWhiteboardUpdate(data)

SpecIds == InitErasers /\ [][NextIds]_vars

(* No two shapes of a whiteboard scene, no two elements of a canvas scene, *)
(* have the same id.                                                       *)
DistinctShapeIds(scene) ==
    \A i, j \in 1..Len(scene) : i # j => heap[scene[i]].id # heap[scene[j]].id

DistinctElementIds(elements) ==
    \A i, j \in 1..Len(elements) : i # j => elements[i].id # elements[j].id

(* C14: in the scene and in every history snapshot of both components no  *)
(* two shapes have the same id, whenever the shapes were created.          *)
C14_IdsUnique ==
    /\ DistinctShapeIds(state.shapes)
    /\ \A k \in 1..Len(state.history) : DistinctShapeIds(state.history[k])
    /\ DistinctElementIds(roomState.elements)
    /\ \A k \in 1..Len(roomState.history) : DistinctElementIds(roomState.history[k])

-----------------------------------------------------------------------------
-----------------------------------------------------------------------------
(* C16: in the room canvas clear-all empties elements and the selection   *)
(* and commits the empty scene: history is the old history up to the      *)
(* cursor followed by an empty snapshot, historyIndex is on it; UNDO on   *)
(* the result moves the cursor back and makes elements the snapshot that  *)
(* was at the cursor before the clear; REDO on the result changes nothing. *)
C16_ClearAllCommitsEmptyScene ==
    [][ handleClear
        => /\ roomState'.elements = <<>>
           /\ roomState'.selectedElementIds = <<>>
           /\ Committed(roomState.history, roomState.historyIndex,
                        roomState'.history, roomState'.historyIndex, <<>>)
           /\ LET undone == whiteboardReducer(roomState', [type |-> "UNDO"])
              IN /\ undone.historyIndex = roomState.historyIndex
                 /\ undone.history = roomState'.history
                 /\ undone.elements = roomState.history[roomState.historyIndex + 1]
           /\ whiteboardReducer(roomState', [type |-> "REDO"]) = roomState'
      ]_vars

(* The canvas just cleared with two elements of different ids on it: the  *)
(* handler has emitted them, the empty snapshot follows the one holding   *)
(* both.                                                                   *)
C16_ClearedSceneStillInHistory ==
    /\ mounted = "WhiteboardCanvas"
    /\ roomState.elements = <<>>
    /\ roomState.historyIndex > 0
    /\ roomState.historyIndex = Len(roomState.history) - 1
    /\ Last(roomState.history) = <<>>
    /\ LET before == roomState.history[roomState.historyIndex]
       IN /\ Len(before) = 2
          /\ before[1].id # before[2].id
          /\ emitted = emitWhiteboardUpdate(before)
          /\ emitted # <<>>

(* C16 as stated: clear-all resets history to a single empty scene with   *)
(* historyIndex 0, and UNDO on the result changes nothing.                 *)
C16_ClearAllResetsHistory ==
    [][ handleClear
        => /\ roomState'.history = << <<>> >>
           /\ roomState'.historyIndex = 0
           /\ whiteboardReducer(roomState', [type |-> "UNDO"]) = roomState'
      ]_vars

-----------------------------------------------------------------------------
(* Zooming.  Zoom factors are in thousandths; a product with 1.1, 1/1.1,  *)
(* 1.2 or 1/1.2 is rounded down to the next thousandth, view offsets to   *)
(* the next pixel.                                                         *)

minZoom == 100       \* Math.max(0.1, ...)
maxZoom == 10000     \* Math.min(..., 10)

(* handleWheel, the canvas' onWheel; pointer is the pointer's position in *)
(* the canvas.  With the text editor open it returns at once.              *)
handleWheel(deltaY, pointer) ==
    /\ OnWhiteboard
    /\ editingShapeIndex = NullIndex
    /\ LET num == IF deltaY < 0 THEN 11 ELSE 10
           den == IF deltaY < 0 THEN 10 ELSE 11
           newViewX == pointer.x - ((pointer.x - view.x) * num) \div den
           newViewY == pointer.y - ((pointer.y - view.y) * num) \div den
       IN /\ Abs(newViewX) <= MaxView
          /\ Abs(newViewY) <= MaxView
          /\ view' = [x |-> newViewX, y |-> newViewY,
                      zoom |-> Max2(minZoom,
                                    Min2((view.zoom * num) \div den, maxZoom))]
    /\ UNCHANGED <<now, heap, state, tool, isDrawing, startPoint,
                   selectedIndices, action, editingShapeIndex>>

(* The Zoom Out and Zoom In buttons call handleWheel with deltaY 100 and  *)
(* -100 and the middle of the window as the pointer.                       *)
zoomOutButton ==
    /\ toolbarReachable
    /\ handleWheel(100, Pt(10, 10))

zoomInButton ==
    /\ toolbarReachable
    /\ handleWheel(-100, Pt(10, 10))

handleZoomIn ==
    /\ OnCanvas
    /\ canvasToolbarReachable
    /\ roomState' = whiteboardReducer(roomState,
            [type |-> "SET_ZOOM", zoom |-> (roomState.zoom * 12) \div 10])
    /\ NoEmit
    /\ UNCHANGED <<now, socket, currentTool, isDrawingC, currentElement,
                   textInput, timers>>

handleZoomOut ==
    /\ OnCanvas
    /\ canvasToolbarReachable
    /\ roomState' = whiteboardReducer(roomState,
            [type |-> "SET_ZOOM", zoom |-> (roomState.zoom * 10) \div 12])
    /\ NoEmit
    /\ UNCHANGED <<now, socket, currentTool, isDrawingC, currentElement,
                   textInput, timers>>

(* Both components with nothing but their zoom controls. *)
NextView ==
    \/ \E deltaY \in {-100, 100, -1000000, 1000000},
          pointer \in {Pt(0, 0), Pt(10, 10)} : handleWheel(deltaY, pointer)
    \/ zoomOutButton
    \/ zoomInButton
    \/ handleZoomIn
    \/ handleZoomOut

SpecView == InitErasers /\ [][NextView]_vars

(* C17: view.zoom of the whiteboard lies in [0.1, 10] and state.zoom of   *)
(* the room canvas in [0.1, 5], whatever wheel events and zoom button     *)
(* presses came before.                                                    *)
C17_ZoomWithinBounds ==
    /\ minZoom <= view.zoom /\ view.zoom <= maxZoom
    /\ roomMinZoom <= roomState.zoom /\ roomState.zoom <= roomMaxZoom

(* The whiteboard zoomed in until the clamp cut the product off at 10. *)
C17_ZoomClampedAtMaximum ==
    /\ mounted = "Whiteboard"
    /\ view.zoom = maxZoom

-----------------------------------------------------------------------------
(* The room canvas with and without a socket: every local action (draw,   *)
(* erase, text, undo, redo, clear, zoom) and, for the listener, the        *)
(* updates of other participants.                                          *)

NextSocket ==
    \/ \E t \in {"freehand", "eraser", "text"} : setCurrentTool(t)
    \/ \E t \in LaterReadings : handleMouseDown(Pt(10, 10), t)
    \/ handleMouseUp
    \/ \E value \in TextValues : textInputOnChange(value)
    \/ \E t \in LaterReadings : textInputOnBlur(t)
    \/ handleUndo
    \/ handleRedo
    \/ handleClear
    \/ handleZoomIn
    \/ timerFires
    \/ \E data \in {s \in RemoteScenes : Len(s) = 1} : onWhiteboardUpdate(data)

SpecSocket == InitCanvas /\ [][NextSocket]_vars

(* elements, history and historyIndex of a reducer state. *)
Scene(st) ==
    [elements |-> st.elements, history |-> st.history,
     historyIndex |-> st.historyIndex]

(* The step is a local action whose scene is what whiteboardReducer makes *)
(* of the action and the state before, socket or not.                      *)
LocalActionStep ==
    \/ /\ handleMouseUp
       /\ currentElement # <<>>
       /\ Scene(roomState') =
            Scene(whiteboardReducer(roomState,
                    [type |-> "ADD_ELEMENT", element |-> currentElement[1]]))
    \/ /\ handleMouseUp
       /\ currentElement = <<>>
       /\ Scene(roomState') = Scene(roomState)
    \/ /\ currentTool = "eraser"
       /\ \E t \in ClockReadings : handleMouseDown(Pt(10, 10), t)
       /\ LET h == findLastHit(roomState.elements, Pt(10, 10))
          IN Scene(roomState') =
               Scene(whiteboardReducer(roomState,
                       [type |-> "DELETE_ELEMENTS",
                        ids |-> <<roomState.elements[h].id>>]))
    \/ /\ currentTool # "eraser"
       /\ \E t \in ClockReadings : handleMouseDown(Pt(10, 10), t)
       /\ Scene(roomState') = Scene(roomState)
    \/ /\ textInput # <<>>
       /\ ~TrimIsEmpty(textInput[1].value)
       /\ \E t \in ClockReadings :
            /\ textInputOnBlur(t)
            /\ Scene(roomState') =
                 Scene(whiteboardReducer(roomState,
                         [type |-> "ADD_ELEMENT",
                          element |-> Element(t, "text",
                                         <<Pt(textInput[1].x, textInput[1].y)>>,
                                         textInput[1].value)]))
    \/ /\ handleUndo
       /\ Scene(roomState') = Scene(whiteboardReducer(roomState, [type |-> "UNDO"]))
    \/ /\ handleRedo
       /\ Scene(roomState') = Scene(whiteboardReducer(roomState, [type |-> "REDO"]))
    \/ /\ handleClear
       /\ Scene(roomState') = Scene(whiteboardReducer(roomState, [type |-> "CLEAR_ALL"]))
    \/ /\ handleZoomIn
       /\ Scene(roomState') = Scene(roomState)
    \/ /\ Scene(roomState') = Scene(roomState)
       /\ roomState'.zoom = roomState.zoom

(* C18: without a socket no message is emitted and no update of another   *)
(* participant is ever loaded (no listener), and with or without a socket *)
(* every local action leaves the elements, history and historyIndex that  *)
(* whiteboardReducer computes from the action and the state before.       *)
C18_NoSocketIsLocalOnly ==
    /\ [](~socket => emitted = <<>>)
    /\ [][~socket => LocalActionStep]_vars
    /\ [][(\E data \in RemoteScenes : onWhiteboardUpdate(data)) \/ LocalActionStep]_vars

(* A canvas without a socket on which elements were added, a change was   *)
(* undone, the view was zoomed and the deferred emit has run.              *)
C18_LocalEditingWithoutSocket ==
    /\ mounted = "WhiteboardCanvas"
    /\ ~socket
    /\ Len(roomState.history) >= 3
    /\ roomState.historyIndex < Len(roomState.history) - 1
    /\ roomState.zoom # ZoomOne
    /\ timers = <<>>

-----------------------------------------------------------------------------
(* A pointer-down on the canvas with one of the draw tools in hand and no *)
(* text editor open.                                                       *)
DrawToolPointerDown ==
    /\ tool \in {"freehand", "eraser", "rect", "circle", "arrow"}
    /\ editingShapeIndex = NullIndex
    /\ \E pos \in Positions : handlePointerDown(pos, 0, now)

(* C19: pointer-down with a draw tool inserts the new shape into shapes   *)
(* and leaves history and historyIndex as they were (the gesture's only   *)
(* snapshot is the one pointer-up appends).                                *)
C19_PointerDownLeavesHistory ==
    [][ DrawToolPointerDown
        => /\ Len(state'.shapes) = Len(state.shapes) + 1
           /\ state'.history = state.history
           /\ state'.historyIndex = state.historyIndex
      ]_vars

-----------------------------------------------------------------------------
(* C20: the pointer-up that ends a selection drag commits: history is one *)
(* snapshot longer, the new last snapshot is the scene with the translated *)
(* shapes, historyIndex is on it, and the gesture is over.                 *)
C20_DragPointerUpCommits ==
    [][ (action = "dragging" /\ handlePointerUp)
        => /\ Len(state'.history) = Len(state.history) + 1
           /\ Last(state'.history) = state.shapes
           /\ state'.historyIndex = Len(state'.history) - 1
           /\ action' = "none"
      ]_vars

-----------------------------------------------------------------------------
(* C21: while a text shape is being edited, Delete, Backspace, Ctrl+Z and *)
(* Ctrl+Y change neither shapes nor history nor historyIndex.              *)
C21_ShortcutsIdleWhileEditing ==
    [][ (/\ editingShapeIndex # NullIndex
         /\ \E key \in {"Delete", "Backspace", "z", "y"} : handleKeyDown(key, TRUE))
        => state' = state
      ]_vars

-----------------------------------------------------------------------------
(* Panning with the pan tool or the middle button, on a zoomed board with *)
(* a rectangle that can be selected.                                       *)

NextPan ==
    \/ \E t \in {"pan", "rect", "select"} : setTool(t)
    \/ \E button \in {0, 1} : handlePointerDown(Pt(10, 10), button, now)
    \/ handlePointerMove(Pt(10, 10), Pt(3, -2))
    \/ handlePointerUp
    \/ handleWheel(-100, Pt(0, 0))

SpecPan == Init /\ [][NextPan]_vars

(* C22: a pointer-down with the pan tool or the middle button starts      *)
(* panning; each pointer-move of the gesture adds the raw movement to the *)
(* view offset, whatever the zoom; the pointer-up (or leave) ends it; and *)
(* none of them changes shapes, history, historyIndex or the selection.   *)
C22_PanMovesViewOnly ==
    [][ /\ (/\ editingShapeIndex = NullIndex
            /\ \E button \in {0, 1} :
                 /\ (tool = "pan" \/ button = 1)
                 /\ handlePointerDown(Pt(10, 10), button, now))
           => /\ action' = "panning"
              /\ view' = view
              /\ <<state, heap, selectedIndices>>' = <<state, heap, selectedIndices>>
        /\ (action = "panning" /\ handlePointerMove(Pt(10, 10), Pt(3, -2)))
           => /\ view' = [x |-> view.x + 3, y |-> view.y - 2, zoom |-> view.zoom]
              /\ action' = "panning"
              /\ <<state, heap, selectedIndices>>' = <<state, heap, selectedIndices>>
        /\ (action = "panning" /\ handlePointerUp)
           => /\ action' = "none"
              /\ view' = view
              /\ <<state, heap, selectedIndices>>' = <<state, heap, selectedIndices>>
      ]_vars

(* A pan in progress on a board zoomed to 1.1 with a selected rectangle:  *)
(* the offset has moved by the raw movement.                               *)
C22_PannedWhileZoomed ==
    /\ action = "panning"
    /\ view = [x |-> 3, y |-> -2, zoom |-> 1100]
    /\ state.shapes # <<>>
    /\ selectedIndices # <<>>

-----------------------------------------------------------------------------
(* The pointer leaving the canvas.                                         *)

(* A variant of the leave that drops the partial shape. *)
onPointerLeave_discarding ==
    /\ OnWhiteboard
    /\ IF action = "drawing" /\ state.shapes # <<>>
       THEN Dispatch(reducer(state,
                [type |-> "SET_SHAPES_NO_HISTORY",
                 payload |-> SubSeq(state.shapes, 1, Len(state.shapes) - 1)]),
                heap)
       ELSE UNCHANGED <<heap, state>>
    /\ isDrawing' = FALSE
    /\ action' = "none"
    /\ startPoint' = <<>>
    /\ UNCHANGED <<now, tool, selectedIndices, editingShapeIndex, view>>

(* onPointerLeave={handlePointerUp} and onMouseLeave={handleMouseUp}. *)
onPointerLeave == handlePointerUp

onMouseLeave == handleMouseUp

NextLeave ==
    \/ \E t \in {"freehand", "rect"} : setTool(t)
    \/ \E pos \in Positions : handlePointerDown(pos, 0, now)
    \/ \E pos \in Positions : handlePointerMove(pos, Pt(0, 0))
    \/ handlePointerUp
    \/ onPointerLeave
    \/ \E t \in {"freehand", "rect"} : setCurrentTool(t)
    \/ \E point \in Positions, t \in LaterReadings : handleMouseDown(point, t)
    \/ \E point \in Positions : handleMouseMove(point)
    \/ handleMouseUp
    \/ onMouseLeave
    \/ timerFires

SpecLeave == InitErasers /\ [][NextLeave]_vars

(* C23: in both canvases a leave is a step of the pointer-up handler, and *)
(* a leave during a drawing gesture keeps the partial shape, appends the  *)
(* scene holding it to history with the cursor on it, and ends the        *)
(* gesture.                                                                *)
C23_LeaveActsAsPointerUp ==
    [][ /\ onPointerLeave => handlePointerUp
        /\ (onPointerLeave /\ action = "drawing" /\ state.shapes # <<>>)
           => /\ state'.shapes = state.shapes
              /\ Committed(state.history, state.historyIndex,
                           state'.history, state'.historyIndex, state.shapes)
              /\ action' = "none"
              /\ ~isDrawing'
              /\ startPoint' = <<>>
        /\ onMouseLeave => handleMouseUp
        /\ (onMouseLeave /\ currentElement # <<>>)
           => /\ roomState'.elements = Append(roomState.elements, currentElement[1])
              /\ Committed(roomState.history, roomState.historyIndex,
                           roomState'.history, roomState'.historyIndex,
                           roomState'.elements)
              /\ currentElement' = <<>>
              /\ ~isDrawingC'
      ]_vars

(* A freehand stroke left unfinished on the whiteboard, two points long,  *)
(* committed with the gesture over.                                        *)
C23_PartialStrokeCommitted ==
    /\ mounted = "Whiteboard"
    /\ action = "none"
    /\ startPoint = <<>>
    /\ state.shapes # <<>>
    /\ Last(state.history) = state.shapes
    /\ state.historyIndex = Len(state.history) - 1
    /\ heap[Last(state.shapes)].type = "freehand"
    /\ Len(heap[Last(state.shapes)].points) = 2

-----------------------------------------------------------------------------
(* C24: every shape of the scene has the bbox that updateBoundingBox      *)
(* computes from its current geometry.                                     *)
C24_BBoxMatchesGeometry ==
    \A i \in 1..Len(state.shapes) :
        heap[state.shapes[i]].bbox = updateBoundingBox(heap[state.shapes[i]]).bbox

-----------------------------------------------------------------------------
(* The positions of shapes that the selection does not name, in order. *)
Unselected ==
    SelectSeq([i \in 1..Len(state.shapes) |-> i],
              LAMBDA i : \A k \in 1..Len(selectedIndices) : selectedIndices[k] # i - 1)

(* C25: with no text being edited and a non-empty selection, Delete or    *)
(* Backspace removes exactly the shapes at the selected indices, keeps    *)
(* the others in their order, appends the resulting scene to history as   *)
(* one snapshot and empties the selection; with an empty selection, or    *)
(* while a text is edited, the key's branch does nothing.                  *)
C25_DeleteRemovesSelection ==
    /\ [][ (\E key \in {"Delete", "Backspace"} : handleKeyDown(key, TRUE))
           => /\ editingShapeIndex = NullIndex
              /\ selectedIndices # <<>>
              /\ state'.shapes = [k \in 1..Len(Unselected) |-> state.shapes[Unselected[k]]]
              /\ \A k \in 1..Len(state'.shapes) :
                     heap'[state'.shapes[k]] = heap[state'.shapes[k]]
              /\ Committed(state.history, state.historyIndex,
                           state'.history, state'.historyIndex, state'.shapes)
              /\ selectedIndices' = <<>>
         ]_vars
    /\ []((selectedIndices = <<>> \/ editingShapeIndex # NullIndex)
            => ~ENABLED handleKeyDown("Delete", TRUE))

(* The first of two rectangles deleted: the scene before is the snapshot  *)
(* below the cursor, the second rectangle is what is left.                 *)
C25_FirstOfTwoDeleted ==
    /\ selectedIndices = <<>>
    /\ state.historyIndex = Len(state.history) - 1
    /\ state.historyIndex > 0
    /\ Last(state.history) = state.shapes
    /\ Len(state.shapes) = 1
    /\ LET before == state.history[state.historyIndex]
       IN /\ Len(before) = 2
          /\ state.shapes[1] = before[2]

-----------------------------------------------------------------------------
(* The 0-based indices of the shapes whose bbox contains pos. *)
ShapesUnder(pos) ==
    {i \in 0..(Len(state.shapes) - 1) :
        LET b == heap[state.shapes[i + 1]].bbox
        IN /\ b.x <= pos.x /\ pos.x <= b.x + b.width
           /\ b.y <= pos.y /\ pos.y <= b.y + b.height}

(* C26: a primary-button pointer-down with the select tool, no text being *)
(* edited, selects exactly the shape with the highest index among those   *)
(* whose bbox contains the position and enters dragging; with no such     *)
(* shape it empties the selection and stays idle; shapes, the shape       *)
(* objects and history are unchanged either way.                           *)
C26_SelectPicksTopmost ==
    [][ \A pos \in Positions :
          (/\ tool = "select"
           /\ editingShapeIndex = NullIndex
           /\ handlePointerDown(pos, 0, now))
          => /\ state' = state
             /\ heap' = heap
             /\ IF ShapesUnder(pos) # {}
                THEN /\ Len(selectedIndices') = 1
                     /\ selectedIndices'[1] \in ShapesUnder(pos)
                     /\ \A i \in ShapesUnder(pos) : i <= selectedIndices'[1]
                     /\ action' = "dragging"
                ELSE /\ selectedIndices' = <<>>
                     /\ action' = "none"
      ]_vars

(* The upper of two shapes under the pointer selected. *)
C26_UpperOfTwoSelected ==
    /\ action = "dragging"
    /\ tool = "select"
    /\ selectedIndices = <<1>>
    /\ startPoint # <<>>
    /\ ShapesUnder(startPoint[1]) = {0, 1}

-----------------------------------------------------------------------------
(* The render effect: the canvas calls of one pass, in order.  A call is   *)
(* the function called, the index of the shape it is called for, and the  *)
(* globalCompositeOperation in force.                                      *)

Paint(call, index, composite) ==
    [call |-> call, index |-> index, composite |-> composite]

(* A variant of the pass that paints each shape where it stands, erasers  *)
(* included.                                                               *)
renderPass_inOnePass ==
    LET indices == [i \in 1..Len(state.shapes) |-> i - 1]
        Shown(i) == i # editingShapeIndex \/ heap[state.shapes[i + 1]].type = "eraser"
        Selected(i) == tool = "select" /\ \E k \in 1..Len(selectedIndices) : selectedIndices[k] = i
        shown == SelectSeq(indices, Shown)
        selected == SelectSeq(indices, Selected)
    IN [k \in 1..Len(shown) |->
            Paint("drawShape", shown[k],
                  IF heap[state.shapes[shown[k] + 1]].type = "eraser"
                  THEN "destination-out" ELSE "source-over")]
       \o [k \in 1..Len(selected) |-> Paint("drawSelectionBox", selected[k], "source-over")]

renderPass ==
    LET indices == [i \in 1..Len(state.shapes) |-> i - 1]
        Regular(i) == heap[state.shapes[i + 1]].type # "eraser" /\ i # editingShapeIndex
        Eraser(i) == heap[state.shapes[i + 1]].type = "eraser"
        Selected(i) == \E k \in 1..Len(selectedIndices) : selectedIndices[k] = i
        regular == SelectSeq(indices, Regular)
        erasers == SelectSeq(indices, Eraser)
        selected == IF tool = "select" THEN SelectSeq(indices, Selected) ELSE <<>>
    IN [k \in 1..Len(regular) |-> Paint("drawShape", regular[k], "source-over")]
       \o [k \in 1..Len(erasers) |-> Paint("drawShape", erasers[k], "destination-out")]
       \o [k \in 1..Len(selected) |-> Paint("drawSelectionBox", selected[k], "source-over")]

(* Drawing, erasing, text and selection, for what the render effect sees. *)
NextRender ==
    \/ \E t \in {"rect", "eraser", "text", "select"} : setTool(t)
    \/ \E pos \in Positions : handlePointerDown(pos, 0, now)
    \/ handlePointerUp
    \/ \E value \in {<<"a">>} : textareaOnChange(value)
    \/ textareaOnBlur

SpecRender == Init /\ [][NextRender]_vars

(* The three groups of calls of a pass, as sets of shape indices. *)
PaintedRegular ==
    {renderPass[k].index : k \in {j \in 1..Len(renderPass) :
        renderPass[j].call = "drawShape" /\ renderPass[j].composite = "source-over"}}

PaintedErasers ==
    {renderPass[k].index : k \in {j \in 1..Len(renderPass) :
        renderPass[j].call = "drawShape" /\ renderPass[j].composite = "destination-out"}}

PaintedBoxes ==
    {renderPass[k].index : k \in {j \in 1..Len(renderPass) :
        renderPass[j].call = "drawSelectionBox"}}

NonEraserIndices ==
    {i \in 0..(Len(state.shapes) - 1) : heap[state.shapes[i + 1]].type # "eraser"}

(* The order of a pass: regular shapes, then erasers under destination-out, *)
(* then selection boxes under source-over, each group in insertion order   *)
(* and without repetition.                                                  *)
Rank(p) ==
    IF p.call = "drawSelectionBox" THEN 3
    ELSE IF p.composite = "destination-out" THEN 2 ELSE 1

PassInOrder ==
    /\ \A a, b \in 1..Len(renderPass) :
          a < b => \/ Rank(renderPass[a]) < Rank(renderPass[b])
                   \/ /\ Rank(renderPass[a]) = Rank(renderPass[b])
                      /\ renderPass[a].index < renderPass[b].index
    /\ \A a \in 1..Len(renderPass) :
          /\ renderPass[a].call = "drawSelectionBox"
                => renderPass[a].composite = "source-over"
          /\ renderPass[a].call = "drawShape"
                => (renderPass[a].composite = "destination-out"
                      <=> heap[state.shapes[renderPass[a].index + 1]].type = "eraser")

-----------------------------------------------------------------------------
(* C28: with no text being edited, Z pressed with Shift and Ctrl (e.key is *)
(* "Z") redoes: whenever there is a snapshot above the cursor the key      *)
(* takes the state to what REDO, and so Ctrl+Y, makes of it.               *)
C28_ShiftCtrlZRedoes ==
    (/\ mounted = "Whiteboard"
     /\ editingShapeIndex = NullIndex
     /\ state.historyIndex < Len(state.history) - 1)
    => ENABLED (/\ handleKeyDown("Z", TRUE)
                /\ state' = reducer(state, [type |-> "REDO"]))

-----------------------------------------------------------------------------
(* The geometry and text of the shapes of a snapshot: the objects it      *)
(* refers to, bbox aside.                                                  *)
Geometries(hp, snapshot) ==
    [k \in 1..Len(snapshot) |-> [hp[snapshot[k]] EXCEPT !.bbox = BBox(0, 0, 0, 0)]]

(* C29: no event alters a snapshot below the cursor: every history[i]     *)
(* with i < historyIndex that is still in history after the event holds   *)
(* shapes of the same geometry and text as before.                         *)
C29_SnapshotsBelowCursorFixed ==
    [][ \A i \in 1..Len(state.history) :
          (i - 1 < state.historyIndex /\ i <= Len(state'.history))
          => Geometries(heap', state'.history[i]) = Geometries(heap, state.history[i])
      ]_vars

-----------------------------------------------------------------------------
(* Drawing gestures with keyboard undo and redo arriving at any moment.   *)
(* Every pointer-down reads a later clock value, so the shape a gesture   *)
(* created is the one whose id is the last reading.                        *)

NextGesture ==
    \/ \E t \in {"freehand", "rect"} : setTool(t)
    \/ \E pos \in Positions, t \in LaterReadings : handlePointerDown(pos, 0, t)
    \/ \E pos \in Positions : handlePointerMove(pos, Pt(0, 0))
    \/ handlePointerUp
    \/ \E key \in {"z", "y"} : handleKeyDown(key, TRUE)

SpecGesture == Init /\ [][NextGesture]_vars

(* C30: the pointer-moves and the pointer-up of a drawing gesture change  *)
(* the geometry of no shape but the one the gesture's pointer-down        *)
(* created, whatever undo and redo keys came in between.                   *)
C30_GestureChangesOwnShapeOnly ==
    [][ (/\ action = "drawing"
         /\ \/ \E pos \in Positions : handlePointerMove(pos, Pt(0, 0))
            \/ handlePointerUp)
        => \A r \in Refs :
              (heap[r].type # "none" /\ heap'[r].type # "none" /\ heap[r].id # now)
              => [heap'[r] EXCEPT !.bbox = BBox(0, 0, 0, 0)]
                   = [heap[r] EXCEPT !.bbox = BBox(0, 0, 0, 0)]
      ]_vars

=============================================================================
